---- MODULE Spec2Model ----
(***************************************************************************)
(* State-machine model of the snap-coin node binary (src/src/main.rs):     *)
(* main's startup sequence, the spawned initial-block-download task        *)
(* (sync_blockchain), the TUI loop's use of the node lock, and the         *)
(* library-side block acceptance the binary races with.                    *)
(***************************************************************************)
EXTENDS Integers, Sequences, FiniteSets, TLC

\* ------------------------------------------------------------------ bounds
\* Longest chain the remote peer may hold.
MaxChain == 3
\* Number of blocks other writers (AnnounceBlock handling) may add in one run.
MaxAnnounce == 1
\* Number of seed peers given with --peers.
MaxSeeds == 1
\* MAX_HASH_BATCH of the coordinator's GetBlockHashes rule, scaled down so that
\* a peer can be more than one batch ahead.
MaxHashBatch == 2
\* Longest chain the local store may already hold when the process starts.
MaxLocal == MaxChain - 2
\* Longest hash list a peer that follows no rules may answer with.
MaxList == MaxHashBatch

VARIABLES
    \* ---- main (src/src/main.rs:235-339)
    mpc,            \* position of main
    peers,          \* number of entries of `peers` (the --peers list)
    seedIdx,        \* next seed the resolution loop looks up
    resolved_peers, \* number of addresses in `resolved_peers` (moved into Node::init)
    create_genesis, \* --create-genesis given
    no_ibd,         \* --no-ibd given on the command line
    resolve_failed, \* lookup_host returned Err for some seed
    genesis,        \* the block built for --create-genesis
    exitCause,      \* why main has returned or panicked ("none" while running)
    \* ---- Node (library state reached through Arc<RwLock<Node>>)
    is_syncing,     \* node.is_syncing
    chain,          \* node.blockchain: the sequence of accepted blocks
    nodePeers,      \* number of entries of node.peers
    lock,           \* the node RwLock: [writer, readers]
    \* ---- the remote peer that IBD talks to
    honest,         \* the peer follows the coordinator dispatch rules
    peerChain,      \* the chain such a peer answers from
    \* ---- the spawned IBD task and sync_blockchain's locals
    ipc,            \* position of the task
    local_height,
    remote_height,
    hashes,         \* block_hashes of the GetBlockHashesResponse
    idx,            \* position of the `for hash in hashes` loop
    block,          \* the block of the last GetBlockResponse
    inflight,       \* requests handed to Peer::request and not yet answered
    result,         \* what sync_blockchain returned: "none", "Ok", "Err"
    error,          \* which failure the Err carries ("none" without one)
    \* ---- run_tui
    tpc,            \* position of the TUI loop
    shown,          \* what the last successful terminal.draw put on the screen
    term,           \* the terminal: raw mode, alternate screen
    \* ---- history of the run (observations only)
    sent,           \* every request IBD issued, in order
    addCalls,       \* every add_block call IBD made: [req, blk, ok]
    chain0,         \* the chain when IBD read the local height
    otherWrites,    \* number of blocks other writers have added
    raced           \* another writer added a block after IBD read the local height

vars == <<mpc, peers, seedIdx, resolved_peers, create_genesis, no_ibd,
          resolve_failed, genesis, exitCause,
          is_syncing, chain, nodePeers, lock, honest, peerChain, ipc,
          local_height, remote_height, hashes, idx, block, inflight, result, error,
          tpc, shown, term, sent, addCalls, chain0, otherWrites, raced>>

mainVars == <<mpc, peers, seedIdx, resolved_peers, create_genesis, no_ibd,
              resolve_failed, genesis, exitCause>>
peerVars == <<honest, peerChain>>
tuiVars  == <<tpc, shown, term>>
ibdVars  == <<ipc, local_height, remote_height, hashes, idx, block, inflight,
              result, error, sent, addCalls, chain0>>

\* ------------------------------------------------------------------ blocks
\* A block, as far as add_block and the hash check can tell blocks apart: its
\* hash, the hash of its parent, and whether its own content (PoW, timestamp,
\* transactions, coinbase) is valid.
ZeroHash == 0

MkBlock(h, p, v) == [hash |-> h, prev |-> p, ok |-> v]

NoBlock == MkBlock(ZeroHash, ZeroHash, FALSE)

\* The block at height i-1 of the chain the network agrees on.
MainBlock(i) == MkBlock(i, i - 1, TRUE)

\* A block at that height whose content fails validation.
BadBlock(i) == MkBlock(200 + i, i - 1, FALSE)

Heights == 1..MaxChain

\* The blocks other peers announce: the next blocks of the agreed chain.
Announced == {MainBlock(i) : i \in Heights}

MainChain(n) == [i \in 1..n |-> MainBlock(i)]

\* blockchain.get_height(): tip height + 1, 0 if empty.
get_height(c) == Len(c)

TipHash(c) == IF c = <<>> THEN ZeroHash ELSE c[Len(c)].hash

\* add_block's verdict: the parent is the current tip and the content is valid.
AddOk(c, b) == b.ok /\ b.prev = TipHash(c)

\* add_block: append on success, store unchanged on failure.
add_block(c, b) == IF AddOk(c, b) THEN Append(c, b) ELSE c

\* build_block followed by compute_pow: a fresh valid block on the current tip.
build_block(c) == MkBlock(300 + Len(c) + 1, TipHash(c), TRUE)

IsPrefix(s, t) == Len(s) <= Len(t) /\ \A i \in 1..Len(s) : s[i] = t[i]

\* ------------------------------------------------------------------ the lock
NoLock == [writer |-> "none", readers |-> {}]

CanRead(l) == l.writer = "none"
CanWrite(l) == l.writer = "none" /\ l.readers = {}

AcquireRead(l, who) == [l EXCEPT !.readers = @ \cup {who}]
AcquireWrite(l, who) == [l EXCEPT !.writer = who]
ReleaseRead(l, who) == [l EXCEPT !.readers = @ \ {who}]
ReleaseWrite(l, who) == [l EXCEPT !.writer = "none"]

Holds(l, who) == l.writer = who \/ who \in l.readers

\* ------------------------------------------------------------------ the screen
\* An Option<Hash>, as get_block_hash_by_height returns it.
NoHash == [some |-> FALSE, hash |-> ZeroHash]
SomeHash(h) == [some |-> TRUE, hash |-> h]

\* blockchain.get_block_hash_by_height(h): the hash of the block at height h.
get_block_hash_by_height(c, h) ==
    IF h + 1 \in 1..Len(c) THEN SomeHash(c[h + 1].hash) ELSE NoHash

saturating_sub(a, b) == IF a >= b THEN a - b ELSE 0

\* let last_block = guard.blockchain.get_block_hash_by_height(height.saturating_sub(1))
\*     .map(|b| b.dump_base36()).unwrap_or("<no block>".to_string());
\* dump_base36 is one-to-one and never yields "<no block>", so the text shown is
\* kept as the Option it is made from.
LastBlockOffByOne(c, height) == get_block_hash_by_height(c, height)
LastBlock(c, height) == get_block_hash_by_height(c, saturating_sub(height, 1))

\* (height, last_block) of node_state, read from the blockchain under one guard.
NodeState(c) ==
    [drawn |-> TRUE, height |-> get_height(c), last_block |-> LastBlock(c, get_height(c))]

\* The screen before the first draw.
NothingShown == [drawn |-> FALSE, height |-> 0, last_block |-> NoHash]

\* The terminal: raw mode on, alternate screen on, and whether run_tui has had
\* both on at some point of the run.
Terminal(r, a, e) == [raw_mode |-> r, alternate_screen |-> a, entered |-> e]

\* ------------------------------------------------------------------ main
\* The process is running: main has neither returned nor panicked.
Alive == exitCause = "none"

\* The state once the arguments are parsed.
Init ==
    /\ mpc = "resolve"
    /\ peers \in 0..MaxSeeds
    /\ seedIdx = 1
    /\ resolved_peers = 0
    /\ create_genesis \in BOOLEAN
    /\ no_ibd \in BOOLEAN
    /\ resolve_failed = FALSE
    /\ genesis = NoBlock
    /\ exitCause = "none"
    /\ is_syncing = FALSE
    /\ chain \in {MainChain(n) : n \in 0..MaxLocal}
    /\ nodePeers = 0
    /\ lock = NoLock
    /\ honest \in BOOLEAN
    /\ peerChain \in {MainChain(n) : n \in 0..MaxChain}
    /\ (~honest => peerChain = <<>>)
    \* --no-ibd is tried on the plain configurations only.
    /\ (no_ibd => honest /\ ~create_genesis)
    /\ ipc = "idle"
    /\ local_height = 0
    /\ remote_height = 0
    /\ hashes = <<>>
    /\ idx = 1
    /\ block = NoBlock
    /\ inflight = {}
    /\ result = "none"
    /\ error = "none"
    /\ tpc = "off"
    /\ shown = NothingShown
    /\ term = Terminal(FALSE, FALSE, FALSE)
    /\ sent = <<>>
    /\ addCalls = <<>>
    /\ chain0 = <<>>
    /\ otherWrites = 0
    /\ raced = FALSE

\* main returns (Ok or Err) or panics: the runtime is dropped with it.
Exit(cause) ==
    /\ mpc' = "exited"
    /\ exitCause' = cause

\* for seed in &peers { match lookup_host(seed).await ... }
ResolveSeed ==
    /\ Alive /\ mpc = "resolve" /\ seedIdx <= peers
    /\ \E outcome \in {"addr", "empty", "err"} :
         /\ resolved_peers' = IF outcome = "addr" THEN resolved_peers + 1
                                                  ELSE resolved_peers
         /\ resolve_failed' = (resolve_failed \/ outcome = "err")
    /\ seedIdx' = seedIdx + 1
    /\ UNCHANGED <<mpc, peers, create_genesis, no_ibd, genesis, exitCause, is_syncing,
                   chain, nodePeers, lock, peerVars, ibdVars, tuiVars, otherWrites, raced>>

\* let node = Node::new(..); node.write().await.is_syncing = true;
NodeNew ==
    /\ Alive /\ mpc = "resolve" /\ seedIdx > peers
    /\ is_syncing' = TRUE
    /\ mpc' = "init"
    /\ UNCHANGED <<peers, seedIdx, resolved_peers, create_genesis, no_ibd,
                   resolve_failed, genesis,
                   exitCause, chain, nodePeers, lock, peerVars, ibdVars, tuiVars,
                   otherWrites, raced>>

\* let _handle = Node::init(node.clone(), resolved_peers).await?;
NodeInit ==
    /\ Alive /\ mpc = "init"
    /\ \/ /\ nodePeers' \in 0..resolved_peers
          /\ mpc' = "api"
          /\ UNCHANGED exitCause
       \/ /\ Exit("init")
          /\ UNCHANGED nodePeers
    /\ resolved_peers' = 0
    /\ UNCHANGED <<peers, seedIdx, create_genesis, no_ibd,
                   resolve_failed, genesis, is_syncing, chain,
                   lock, peerVars, ibdVars, tuiVars, otherWrites, raced>>

\* Where main goes after the API step: `if create_genesis { .. }` comes before
\* the `if !peers.is_empty()` that spawns IBD.
AfterApiPcNoGenesis(cg) == "spawn"
AfterApiPc(cg) == IF cg THEN "genesis" ELSE "spawn"

\* if start_api { sleep; Server::new(..).listen().await?; }
StartApi ==
    /\ Alive /\ mpc = "api"
    /\ \E start_api \in BOOLEAN, listen_ok \in BOOLEAN :
         IF start_api /\ ~listen_ok
         THEN Exit("api")
         ELSE /\ mpc' = AfterApiPc(create_genesis)
              /\ UNCHANGED exitCause
    /\ UNCHANGED <<peers, seedIdx, resolved_peers, create_genesis, no_ibd,
                   resolve_failed, genesis,
                   is_syncing, chain, nodePeers, lock, peerVars, ibdVars, tuiVars,
                   otherWrites, raced>>

\* if create_genesis { let mut genesis = { let blockchain = &node.read().await.blockchain; ..
GenLockRead ==
    /\ Alive /\ mpc = "genesis" /\ CanRead(lock)
    /\ lock' = AcquireRead(lock, "main")
    /\ mpc' = "build"
    /\ UNCHANGED <<peers, seedIdx, resolved_peers, create_genesis, no_ibd,
                   resolve_failed, genesis,
                   exitCause, is_syncing, chain, nodePeers, peerVars, ibdVars,
                   tuiVars, otherWrites, raced>>

\* .. build_block(blockchain, &transactions, DEV_WALLET).await? }; genesis.compute_pow()?;
\* The read guard lives to the end of the block expression.
GenBuild ==
    /\ Alive /\ mpc = "build"
    /\ lock' = ReleaseRead(lock, "main")
    /\ \E built \in BOOLEAN :
         IF built
         THEN /\ genesis' = build_block(chain)
              /\ mpc' = "submit"
              /\ UNCHANGED exitCause
         ELSE /\ Exit("build")
              /\ UNCHANGED genesis
    /\ UNCHANGED <<peers, seedIdx, resolved_peers, create_genesis, no_ibd,
                   resolve_failed, is_syncing,
                   chain, nodePeers, peerVars, ibdVars, tuiVars, otherWrites, raced>>

\* Node::submit_block(node.clone(), genesis).await?;
GenSubmit ==
    /\ Alive /\ mpc = "submit" /\ CanWrite(lock)
    /\ chain' = add_block(chain, genesis)
    /\ IF AddOk(chain, genesis)
       THEN /\ mpc' = "spawn"
            /\ UNCHANGED exitCause
       ELSE Exit("genesis_rejected")
    /\ UNCHANGED <<peers, seedIdx, resolved_peers, create_genesis, no_ibd,
                   resolve_failed, genesis,
                   is_syncing, nodePeers, lock, peerVars, ibdVars, tuiVars,
                   otherWrites, raced>>

\* The value of is_syncing once the task has been handed to tokio::spawn: the
\* task clears it only at its end.
SyncingAfterSpawnEarly(s) == FALSE
SyncingAfterSpawn(s) == s

\* if !peers.is_empty() { let peer = node.read().await.peers[0].clone(); tokio::spawn(..) }
SpawnIbd ==
    /\ Alive /\ mpc = "spawn" /\ peers > 0 /\ CanRead(lock)
    /\ IF nodePeers = 0
       THEN /\ Exit("panic")
            /\ UNCHANGED <<ipc, is_syncing>>
       ELSE /\ ipc' = "sleep"
            /\ is_syncing' = SyncingAfterSpawn(is_syncing)
            /\ mpc' = "tui"
            /\ UNCHANGED exitCause
    /\ UNCHANGED <<peers, seedIdx, resolved_peers, create_genesis, no_ibd,
                   resolve_failed, genesis,
                   chain, nodePeers, lock, peerVars, local_height, remote_height,
                   hashes, idx, block, inflight, result, error, sent, addCalls, chain0,
                   tuiVars, otherWrites, raced>>

\* } else { node.write().await.is_syncing = false; }
ClearNoPeers ==
    /\ Alive /\ mpc = "spawn" /\ peers = 0 /\ CanWrite(lock)
    /\ is_syncing' = FALSE
    /\ mpc' = "tui"
    /\ UNCHANGED <<peers, seedIdx, resolved_peers, create_genesis, no_ibd,
                   resolve_failed, genesis,
                   exitCause, chain, nodePeers, lock, peerVars, ibdVars, tuiVars,
                   otherWrites, raced>>

\* ------------------------------------------------------------------ run_tui
\* enable_raw_mode()?; execute!(stdout, EnterAlternateScreen)?; Terminal::new(..)?; clear()?
\* `failed` is the first of these calls that returns an error.
TuiEnter ==
    /\ Alive /\ mpc = "tui" /\ tpc = "off"
    /\ \E failed \in {"none", "enable_raw_mode", "EnterAlternateScreen", "Terminal"} :
         /\ term' = CASE failed = "enable_raw_mode"      -> term
                      [] failed = "EnterAlternateScreen" -> Terminal(TRUE, FALSE, FALSE)
                      [] OTHER                           -> Terminal(TRUE, TRUE, TRUE)
         /\ IF failed = "none"
            THEN tpc' = "loop" /\ UNCHANGED <<mpc, exitCause>>
            ELSE Exit("tui_err") /\ UNCHANGED tpc
    /\ UNCHANGED <<peers, seedIdx, resolved_peers, create_genesis, no_ibd,
                   resolve_failed, genesis, is_syncing, chain, nodePeers, lock,
                   peerVars, ibdVars, shown, otherWrites, raced>>

\* let guard = node.read().await;
TuiLock ==
    /\ Alive /\ mpc = "tui" /\ tpc = "loop" /\ CanRead(lock)
    /\ lock' = AcquireRead(lock, "tui")
    /\ tpc' = "snap"
    /\ UNCHANGED <<mainVars, is_syncing, chain, nodePeers, peerVars, ibdVars,
                   shown, term, otherWrites, raced>>

\* The rest of one iteration: (height, last_block, peer_snaps) are read and the
\* guard is dropped; terminal.draw(..)?; event::poll(..)? and event::read()?;
\* 'q' breaks the loop to disable_raw_mode()?; execute!(stdout, LeaveAlternateScreen)?;
\* Ok(()), and main returns what run_tui returns. Every `?` returns at once.
\* Leaving the alternate screen takes what was drawn on it off the screen.
TuiSnapshot ==
    /\ Alive /\ mpc = "tui" /\ tpc = "snap"
    /\ lock' = ReleaseRead(lock, "tui")
    /\ \E ev \in {"none", "key", "q", "draw_err", "input_err",
                  "disable_raw_mode_err", "LeaveAlternateScreen_err"} :
         /\ shown' = CASE ev = "draw_err" -> shown
                       [] ev = "q"        -> NothingShown
                       [] OTHER           -> NodeState(chain)
         /\ term' = CASE ev = "q" -> Terminal(FALSE, FALSE, TRUE)
                      [] ev = "LeaveAlternateScreen_err" -> Terminal(FALSE, TRUE, TRUE)
                      [] OTHER -> term
         /\ CASE ev = "q" -> Exit("quit") /\ UNCHANGED tpc
              [] ev \in {"none", "key"} -> tpc' = "loop" /\ UNCHANGED <<mpc, exitCause>>
              [] OTHER -> Exit("tui_err") /\ UNCHANGED tpc
    /\ UNCHANGED <<peers, seedIdx, resolved_peers, create_genesis, no_ibd,
                   resolve_failed, genesis, is_syncing, chain, nodePeers,
                   peerVars, ibdVars, otherWrites, raced>>

\* ------------------------------------------------------------------ other writers
\* The coordinator accepts a block announced by some peer: add_block under the
\* write lock, from Node::init on.
AnnounceBlock ==
    /\ Alive /\ mpc \notin {"resolve", "init"}
    /\ CanWrite(lock)
    /\ otherWrites < MaxAnnounce
    /\ \E b \in Announced :
         /\ AddOk(chain, b)
         /\ chain' = add_block(chain, b)
    /\ otherWrites' = otherWrites + 1
    /\ raced' = (raced \/ ipc \notin {"idle", "sleep", "rdlock"})
    /\ UNCHANGED <<mainVars, is_syncing, nodePeers, lock, peerVars, ibdVars, tuiVars>>

\* ------------------------------------------------------------------ the peer
Ping(h) == [kind |-> "Ping", a |-> h, b |-> 0]
GetBlockHashes(start, end) == [kind |-> "GetBlockHashes", a |-> start, b |-> end]
GetBlock(h) == [kind |-> "GetBlock", a |-> h, b |-> 0]

Reply(k, h, hs, s, blk) ==
    [kind |-> k, height |-> h, block_hashes |-> hs, some |-> s, block |-> blk]

Pong(h) == Reply("Pong", h, <<>>, FALSE, NoBlock)
GetBlockHashesResponse(hs) == Reply("GetBlockHashesResponse", 0, hs, FALSE, NoBlock)
GetBlockResponse(s, blk) == Reply("GetBlockResponse", 0, <<>>, s, blk)
\* A command of a kind the request does not expect.
OtherCommand == Reply("Other", 0, <<>>, FALSE, NoBlock)
\* Peer::request itself failed (RequestTimeout, PeerClosed, ...).
RequestError == Reply("Err", 0, <<>>, FALSE, NoBlock)

Min(x, y) == IF x <= y THEN x ELSE y

\* The hashes at heights start .. min(end, height) - 1 of chain c.
HashRange(c, start, end) ==
    LET last == Min(end, Len(c))
    IN  IF start >= last THEN <<>>
        ELSE [i \in 1..(last - start) |-> c[start + i].hash]

\* The block of chain c with hash h, or the absent sentinel.
BlockByHash(c, h) ==
    IF \E i \in 1..Len(c) : c[i].hash = h
    THEN GetBlockResponse(TRUE, c[CHOOSE i \in 1..Len(c) : c[i].hash = h])
    ELSE GetBlockResponse(FALSE, NoBlock)

\* What a peer that follows the dispatch rules answers from its chain.
HonestReplies(req) ==
    CASE req.kind = "Ping" -> {Pong(get_height(peerChain))}
      [] req.kind = "GetBlockHashes" ->
            IF req.b - req.a > MaxHashBatch
            THEN {OtherCommand, RequestError}
            ELSE {GetBlockHashesResponse(HashRange(peerChain, req.a, req.b))}
      [] req.kind = "GetBlock" -> {BlockByHash(peerChain, req.a)}

SeqsUpTo(S, n) == UNION {[1..k -> S] : k \in 0..n}

\* The blocks and the hashes a peer that follows no rules answers with.
AnyBlocks == {MainBlock(i) : i \in 1..MaxList} \cup {BadBlock(1)}

ListedHashes == {MainBlock(i).hash : i \in 1..MaxList}

\* The height such a peer reports. sync_blockchain uses it as the `end` of its
\* GetBlockHashes only, which such a peer is free to ignore, so the one height
\* that is never above the local height stands for all.
AnyHeights == {0}

\* What any peer at all may answer.
AnyReplies(req) ==
    {OtherCommand, RequestError} \cup
    CASE req.kind = "Ping" -> {Pong(h) : h \in AnyHeights}
      [] req.kind = "GetBlockHashes" ->
            {GetBlockHashesResponse(hs) : hs \in SeqsUpTo(ListedHashes, MaxList)}
      [] req.kind = "GetBlock" ->
            {GetBlockResponse(TRUE, b) : b \in AnyBlocks}
              \cup {GetBlockResponse(FALSE, NoBlock)}

Replies(req) == IF honest THEN HonestReplies(req) ELSE AnyReplies(req)

\* ------------------------------------------------------------------ the IBD task
\* The variables no step of the task touches.
ibdFrame == <<mainVars, is_syncing, nodePeers, peerVars, tuiVars, otherWrites, raced>>

\* Peer::request(peer, Message::new(req)): the request is handed to the session.
Request(req) ==
    /\ inflight' = inflight \cup {req}
    /\ sent' = Append(sent, req)

\* `return Err(..)` and `.await?` on a failed request.
ReturnErrSwallowed(e) ==
    /\ result' = "Ok"
    /\ error' = e
    /\ ipc' = "returned"

\* return Err(..): sync_blockchain ends with the failure e.
ReturnErr(e) ==
    /\ result' = "Err"
    /\ error' = e
    /\ ipc' = "returned"

\* What a reply that is not the expected one makes of the request: `?` passes
\* on the failure of Peer::request, the `_ =>` arm reports a command of another
\* kind, and the else branch of `if let Some(block)` reports the absent block.
ReplyError(r) ==
    CASE r.kind = "Err" -> "request"
      [] r.kind = "GetBlockResponse" /\ ~r.some -> "absent"
      [] OTHER -> "kind"

\* tokio::spawn(async move { sleep(Duration::from_secs(1)).await; ..
IbdWake ==
    /\ Alive /\ ipc = "sleep"
    /\ ipc' = "rdlock"
    /\ UNCHANGED <<ibdFrame, chain, lock, local_height, remote_height, hashes,
                   idx, block, inflight, result, error, sent, addCalls, chain0>>

\* node.read().await
IbdLockRead ==
    /\ Alive /\ ipc = "rdlock" /\ CanRead(lock)
    /\ lock' = AcquireRead(lock, "ibd")
    /\ ipc' = "height"
    /\ UNCHANGED <<ibdFrame, chain, local_height, remote_height, hashes, idx,
                   block, inflight, result, error, sent, addCalls, chain0>>

\* The node lock once `let local_height = ..get_height();` has ended: the
\* temporary read guard is dropped with the statement.
IbdAfterHeightLock(l) == ReleaseRead(l, "ibd")

\* let local_height = node.read().await.blockchain.get_height();
IbdReadHeight ==
    /\ Alive /\ ipc = "height"
    /\ local_height' = get_height(chain)
    /\ chain0' = chain
    /\ lock' = IbdAfterHeightLock(lock)
    /\ ipc' = "ping"
    /\ UNCHANGED <<ibdFrame, chain, remote_height, hashes, idx, block, inflight,
                   result, error, sent, addCalls>>

\* Peer::request(peer, Ping { height: local_height })
IbdSendPing ==
    /\ Alive /\ ipc = "ping"
    /\ Request(Ping(local_height))
    /\ ipc' = "pong"
    /\ UNCHANGED <<ibdFrame, chain, lock, local_height, remote_height, hashes,
                   idx, block, result, error, addCalls, chain0>>

\* .await?.command { Command::Pong { height } => height, _ => return Err(..) }
IbdRecvPong ==
    /\ Alive /\ ipc = "pong"
    /\ \E req \in inflight : \E r \in Replies(req) :
         /\ inflight' = inflight \ {req}
         /\ IF r.kind = "Pong"
            THEN /\ remote_height' = r.height
                 /\ ipc' = "gethashes"
                 /\ UNCHANGED <<result, error>>
            ELSE /\ ReturnErr(ReplyError(r))
                 /\ UNCHANGED remote_height
    /\ UNCHANGED <<ibdFrame, chain, lock, local_height, hashes, idx, block, sent,
                   addCalls, chain0>>

\* The first height asked for: the local height as read at the start.
RangeStartNext(l) == l + 1
RangeStart(l) == l

\* Peer::request(peer, GetBlockHashes { start: local_height, end: remote_height })
IbdSendGetHashes ==
    /\ Alive /\ ipc = "gethashes"
    /\ Request(GetBlockHashes(RangeStart(local_height), remote_height))
    /\ ipc' = "hashes"
    /\ UNCHANGED <<ibdFrame, chain, lock, local_height, remote_height, hashes,
                   idx, block, result, error, addCalls, chain0>>

\* .await?.command { Command::GetBlockHashesResponse { block_hashes } => .., _ => return Err(..) }
IbdRecvHashes ==
    /\ Alive /\ ipc = "hashes"
    /\ \E req \in inflight : \E r \in Replies(req) :
         /\ inflight' = inflight \ {req}
         /\ IF r.kind = "GetBlockHashesResponse"
            THEN /\ hashes' = r.block_hashes
                 /\ idx' = 1
                 /\ ipc' = "loop"
                 /\ UNCHANGED <<result, error>>
            ELSE /\ ReturnErr(ReplyError(r))
                 /\ UNCHANGED <<hashes, idx>>
    /\ UNCHANGED <<ibdFrame, chain, lock, local_height, remote_height, block,
                   sent, addCalls, chain0>>

\* `for hash in hashes`: the hash of the i-th iteration, the end of the loop, and
\* the step to the next iteration.
CurrentHashReversed(hs, i) == hs[Len(hs) + 1 - i]
CurrentHashFirst(hs, i) == hs[1]
CurrentHash(hs, i) == hs[i]

LoopDoneEarly(hs, i) == i >= Len(hs)
LoopDone(hs, i) == i > Len(hs)

\* Peer::request(peer, GetBlock { block_hash: hash })
IbdSendGetBlock ==
    /\ Alive /\ ipc = "loop" /\ ~LoopDone(hashes, idx)
    /\ Request(GetBlock(CurrentHash(hashes, idx)))
    /\ ipc' = "block"
    /\ UNCHANGED <<ibdFrame, chain, lock, local_height, remote_height, hashes,
                   idx, block, result, error, addCalls, chain0>>

\* The loop is exhausted: Ok(())
IbdReturnOk ==
    /\ Alive /\ ipc = "loop" /\ LoopDone(hashes, idx)
    /\ result' = "Ok"
    /\ UNCHANGED error
    /\ ipc' = "returned"
    /\ UNCHANGED <<ibdFrame, chain, lock, local_height, remote_height, hashes,
                   idx, block, inflight, sent, addCalls, chain0>>

\* .await?.command { Command::GetBlockResponse { block } => block, _ => return Err(..) };
\* if let Some(block) = block { .. } else { return Err(..) }
IbdRecvBlock ==
    /\ Alive /\ ipc = "block"
    /\ \E req \in inflight : \E r \in Replies(req) :
         /\ inflight' = inflight \ {req}
         /\ IF r.kind = "GetBlockResponse" /\ r.some
            THEN /\ block' = r.block
                 /\ ipc' = "wrlock"
                 /\ UNCHANGED <<result, error>>
            ELSE /\ ReturnErr(ReplyError(r))
                 /\ UNCHANGED block
    /\ UNCHANGED <<ibdFrame, chain, lock, local_height, remote_height, hashes,
                   idx, sent, addCalls, chain0>>

\* node.write().await
IbdLockWrite ==
    /\ Alive /\ ipc = "wrlock" /\ CanWrite(lock)
    /\ lock' = AcquireWrite(lock, "ibd")
    /\ ipc' = "add"
    /\ UNCHANGED <<ibdFrame, chain, local_height, remote_height, hashes, idx,
                   block, inflight, result, error, sent, addCalls, chain0>>

\* The node lock once the add_block statement has ended: the temporary write
\* guard is dropped with the statement, whatever add_block returned.
IbdAfterAddLockKept(l) == l
IbdAfterAddLock(l) == ReleaseWrite(l, "ibd")

\* Where the task goes after add_block: `?` returns the error at once, success
\* moves to the next hash.
AfterAddPcContinue(ok) == "loop"
AfterAddPc(ok) == IF ok THEN "loop" ELSE "returned"

\* node.write().await.blockchain.add_block(block.clone())?;
IbdAddBlock ==
    /\ Alive /\ ipc = "add"
    /\ LET ok == AddOk(chain, block)
       IN  /\ chain' = add_block(chain, block)
           /\ addCalls' = Append(addCalls,
                                 [req |-> sent[Len(sent)].a, blk |-> block, ok |-> ok])
           /\ ipc' = AfterAddPc(ok)
           /\ result' = IF AfterAddPc(ok) = "returned" THEN "Err" ELSE result
           /\ error' = IF AfterAddPc(ok) = "returned" THEN "add_block" ELSE error
           /\ idx' = IF AfterAddPc(ok) = "returned" THEN idx ELSE idx + 1
    /\ block' = NoBlock
    /\ lock' = IbdAfterAddLock(lock)
    /\ UNCHANGED <<ibdFrame, local_height, remote_height, hashes, inflight,
                   sent, chain0>>

\* Whether the task goes on to clear is_syncing once sync_blockchain has
\* returned res: the result is only logged, so it always does.
TaskClearsOnOk(res) == res = "Ok"
TaskClears(res) == TRUE

\* Node::log(format!(.., sync_blockchain(..).await)); node.write().await
IbdLockClear ==
    /\ Alive /\ ipc = "returned" /\ TaskClears(result) /\ CanWrite(lock)
    /\ lock' = AcquireWrite(lock, "ibd")
    /\ ipc' = "clear"
    /\ UNCHANGED <<ibdFrame, chain, local_height, remote_height, hashes, idx,
                   block, inflight, result, error, sent, addCalls, chain0>>

\* node.write().await.is_syncing = false; and the task ends.
IbdClear ==
    /\ Alive /\ ipc = "clear"
    /\ is_syncing' = FALSE
    /\ lock' = ReleaseWrite(lock, "ibd")
    /\ ipc' = "done"
    /\ UNCHANGED <<mainVars, nodePeers, peerVars, tuiVars, otherWrites, raced, chain,
                   local_height, remote_height, hashes, idx, block, inflight,
                   result, error, sent, addCalls, chain0>>

\* ------------------------------------------------------------------ specification
Next ==
    \/ ResolveSeed
    \/ NodeNew
    \/ NodeInit
    \/ StartApi
    \/ GenLockRead
    \/ GenBuild
    \/ GenSubmit
    \/ SpawnIbd
    \/ ClearNoPeers
    \/ TuiEnter
    \/ TuiLock
    \/ TuiSnapshot
    \/ AnnounceBlock
    \/ IbdWake
    \/ IbdLockRead
    \/ IbdReadHeight
    \/ IbdSendPing
    \/ IbdRecvPong
    \/ IbdSendGetHashes
    \/ IbdRecvHashes
    \/ IbdSendGetBlock
    \/ IbdReturnOk
    \/ IbdRecvBlock
    \/ IbdLockWrite
    \/ IbdAddBlock
    \/ IbdLockClear
    \/ IbdClear

Spec == Init /\ [][Next]_vars

\* The steps of the task that wait for nothing but the scheduler or the peer.
IbdStep ==
    \/ IbdWake
    \/ IbdReadHeight
    \/ IbdSendPing
    \/ IbdRecvPong
    \/ IbdSendGetHashes
    \/ IbdRecvHashes
    \/ IbdSendGetBlock
    \/ IbdReturnOk
    \/ IbdRecvBlock
    \/ IbdAddBlock
    \/ IbdClear

\* The steps of the task that wait for the node lock.
IbdAcquire ==
    \/ IbdLockRead
    \/ IbdLockWrite
    \/ IbdLockClear

\* The scheduling the runtime gives the task: a runnable step is eventually
\* taken, a lock that keeps becoming free is eventually granted (tokio's RwLock
\* queues its waiters fairly), every request eventually comes back with a reply
\* or an error, and the TUI does not sit on its read guard.
Fairness ==
    /\ WF_vars(IbdStep)
    /\ SF_vars(IbdAcquire)
    /\ WF_vars(TuiSnapshot)

FairSpec == Init /\ [][Next]_vars /\ Fairness

\* ------------------------------------------------------------------ observations
Launched == ipc # "idle"

\* sync_blockchain has returned (the task may still have to clear is_syncing).
Returned == ipc \in {"returned", "clear", "done"}

\* The Ping has been answered by a Pong: the task is about to issue its second
\* request, or has issued it.
PongReceived == ipc = "gethashes" \/ Len(sent) >= 2

IsGetBlock(r) == r.kind = "GetBlock"
IsGetBlockHashes(r) == r.kind = "GetBlockHashes"
IsOkCall(c) == c.ok

GetBlocksSent == SelectSeq(sent, IsGetBlock)
HashRequestsSent == SelectSeq(sent, IsGetBlockHashes)
OkCalls == SelectSeq(addCalls, IsOkCall)

\* The blocks of the first n add_block calls, in order.
CalledBlocks(n) == [i \in 1..n |-> addCalls[i].blk]

\* The peer follows the rules, its chain extends the chain IBD started from,
\* and nobody else wrote to the blockchain since.
HonestRun == honest /\ IsPrefix(chain0, peerChain) /\ ~raced

\* ------------------------------------------------------------------ C1
\* C1: when the Pong's height is less than or equal to the local height read at
\* the start, sync_blockchain issues no GetBlockHashes and no GetBlock request
\* and never calls add_block.
C1_NoRequestWhenNotBehind ==
    (PongReceived /\ remote_height <= local_height)
        => (HashRequestsSent = <<>> /\ GetBlocksSent = <<>> /\ addCalls = <<>>)

\* ------------------------------------------------------------------ C2
\* C2: a block is passed to add_block only if its hash equals the hash that was
\* requested in the GetBlock it answers.
C2_OnlyRequestedBlockAdded ==
    \A i \in 1..Len(addCalls) : addCalls[i].blk.hash = addCalls[i].req

\* ------------------------------------------------------------------ C3
\* Some add_block call of IBD was rejected; k is the call.
Rejected(k) == k \in 1..Len(addCalls) /\ ~addCalls[k].ok

\* What follows a rejection of the k-th fetched block, whoever else writes:
\* the error is returned at once, the k-th GetBlock is the last request and the
\* k-th add_block the last call.
AbortsAt(k) ==
    /\ k = Len(addCalls)
    /\ Returned /\ result = "Err"
    /\ Len(GetBlocksSent) = k
    /\ inflight = {}

\* The chain is the chain IBD started from, extended by the first k-1 fetched
\* blocks.
KeepsFirst(k) == chain = chain0 \o CalledBlocks(k - 1)

\* C3 as stated: if add_block rejects the k-th fetched block, sync_blockchain
\* returns an error at once, requests and adds nothing more, and the local chain
\* is exactly the chain before IBD extended by the first k-1 fetched blocks.
C3_Original ==
    \A k \in 1..Len(addCalls) : Rejected(k) => (AbortsAt(k) /\ KeepsFirst(k))

\* C3 (amended): the same, the statement about the chain holding when no other
\* writer added a block to the blockchain after IBD read the local height.
C3_AbortOnRejection ==
    \A k \in 1..Len(addCalls) :
        Rejected(k) => (AbortsAt(k) /\ (~raced => KeepsFirst(k)))

\* The second fetched block is rejected after the first was added, nobody else
\* writing.
C3_Witness ==
    /\ Len(addCalls) = 2 /\ addCalls[1].ok /\ ~addCalls[2].ok
    /\ ~raced /\ Returned

\* ------------------------------------------------------------------ C4
\* The IBD task has been started and has not yet completed.
TaskRunning == ipc \notin {"idle", "done"}

\* The step on which the IBD task completes.
TaskCompletes == ipc # "done" /\ ipc' = "done"

\* The step on which is_syncing changes to false.
SyncingCleared == is_syncing /\ ~is_syncing'

\* C4 as stated: is_syncing = true implies that an IBD task has been started
\* and has not yet completed.
C4_Original == is_syncing => TaskRunning

\* C4 (amended): is_syncing = true implies that the IBD task has not completed
\* (the flag is raised at startup, before any task exists); the flag changes to
\* false on the step that completes the task, and otherwise only in main when no
\* seed peer was given and no task is ever started.
C4_SyncingUntilTaskDone ==
    /\ [](is_syncing => ipc # "done")
    /\ [][TaskCompletes => SyncingCleared]_vars
    /\ [][SyncingCleared => (TaskCompletes \/ (peers = 0 /\ ipc = "idle" /\ ipc' = "idle"))]_vars

\* The task has completed and the flag is down.
C4_Witness == ipc = "done" /\ ~is_syncing /\ Alive

\* ------------------------------------------------------------------ C5
\* C5 as stated: once the IBD task has been launched, is_syncing eventually
\* becomes false.
C5_Original == Launched ~> ~is_syncing

\* C5 (amended): once the IBD task has been launched, is_syncing eventually
\* becomes false unless the process ends first (main returning from run_tui
\* cancels the task); the task clears it only after sync_blockchain has
\* returned, and does so after Ok and after an error alike.
C5_EventuallyCleared ==
    /\ Launched ~> (~is_syncing \/ ~Alive)
    /\ (result = "Ok") ~> (~is_syncing \/ ~Alive)
    /\ (result = "Err") ~> (~is_syncing \/ ~Alive)
    /\ [][(SyncingCleared /\ Launched') => (Returned /\ result # "none")]_vars

\* The task has cleared the flag after sync_blockchain returned an error.
C5_Witness == ipc = "done" /\ result = "Err" /\ ~is_syncing /\ Alive

\* ------------------------------------------------------------------ C6
\* C6: if sync_blockchain returns Ok against a peer that answers honestly from
\* a fixed chain extending the local chain, with no other writer, the local
\* height equals the height of the Pong and the local hash equals the peer's
\* hash at every height below it.
C6_OkMeansSynced ==
    (HonestRun /\ Returned /\ result = "Ok")
        => /\ get_height(chain) = remote_height
           /\ \A i \in 1..remote_height : chain[i].hash = peerChain[i].hash

\* Such a run that fetched and added two blocks.
C6_Witness ==
    /\ HonestRun /\ Returned /\ result = "Ok"
    /\ Len(OkCalls) = 2 /\ get_height(chain) = get_height(chain0) + 2

\* ------------------------------------------------------------------ C7
\* C7: against a peer that follows the dispatch rules and is ahead by n >= 1
\* blocks, one run of IBD ends with the local height equal to the remote
\* height, also for n greater than MAX_HASH_BATCH.
C7_ReconcilesAnyGap ==
    (HonestRun /\ Returned /\ remote_height - local_height >= 1)
        => get_height(chain) = remote_height

\* ------------------------------------------------------------------ C8
\* C8: at most one IBD request is outstanding; the GetBlock for the (i+1)-th
\* hash is issued only after add_block for the i-th fetched block returned
\* successfully; add_block is called on the fetched blocks in the order of the
\* hashes of the GetBlockHashesResponse.
C8_SerialFetch ==
    /\ Cardinality(inflight) <= 1
    /\ Len(GetBlocksSent) <= Len(OkCalls) + 1
    /\ Len(addCalls) <= Len(GetBlocksSent)
    /\ Len(GetBlocksSent) <= Len(hashes)
    /\ \A i \in 1..Len(GetBlocksSent) : GetBlocksSent[i].a = hashes[i]
    /\ \A i \in 1..Len(addCalls) : addCalls[i].req = hashes[i]

\* Two blocks of two different hashes have been fetched and added.
C8_Witness ==
    /\ Len(addCalls) = 2 /\ addCalls[2].ok
    /\ hashes[1] # hashes[2]

\* ------------------------------------------------------------------ C9
\* C9: IBD holds the node lock over no network I/O: while a request is
\* outstanding, and on every step that issues or completes one, the task holds
\* neither guard; the write guard is held only for add_block (and for the final
\* clearing of is_syncing), the read guard only for reading the local height.
C9_NoIoUnderLock ==
    /\ Holds(lock, "ibd") => inflight = {}
    /\ lock.writer = "ibd" => ipc \in {"add", "clear"}
    /\ "ibd" \in lock.readers => ipc = "height"
    /\ ipc \in {"ping", "gethashes", "loop"} => ~Holds(lock, "ibd")

\* The task holds the write guard for the add_block of its second block.
C9_Witness == lock.writer = "ibd" /\ ipc = "add" /\ Len(addCalls) = 1

\* ------------------------------------------------------------------ C10
\* C10: no validation error of the blockchain ends the process: main never
\* exits because add_block rejected a block of IBD or because the genesis block
\* submitted at startup was rejected.
C10_ValidationNeverFatal ==
    exitCause \notin {"genesis_rejected", "ibd_rejected"}

\* ------------------------------------------------------------------ C11
\* Node::init has been called: main is past it, or has returned (it returns
\* from Node::init on at the earliest).
NodeInitRan ==
    mpc \in {"api", "genesis", "build", "submit", "spawn", "tui", "exited"}

\* C11: if the resolution of some seed of --peers fails, startup ends there:
\* Node::init is not run with the seeds that did resolve, no IBD task is
\* launched and the TUI is not started.
C11_ResolutionFailureIsFatal ==
    resolve_failed => (~NodeInitRan /\ ~Launched /\ tpc = "off")

\* ------------------------------------------------------------------ C12
\* C12: when the node is started with --no-ibd, no IBD task is launched and IBD
\* sends no Ping, GetBlockHashes or GetBlock request, --peers given or not.
C12_NoIbdFlagHonoured ==
    no_ibd => (~Launched /\ sent = <<>>)

\* ------------------------------------------------------------------ C13
\* C13: the IBD task is launched only when node.peers holds at least one
\* connected peer, and main never indexes an empty node.peers at peers[0].
C13_IbdOnlyWithPeer ==
    /\ Launched => nodePeers >= 1
    /\ exitCause # "panic"

\* ------------------------------------------------------------------ C14
IsPing(r) == r.kind = "Ping"
PingsSent == SelectSeq(sent, IsPing)

\* The requests of one run: the Ping first and only once, at most one
\* GetBlockHashes, and the i-th GetBlock for the i-th entry of the list, so at
\* most two requests more than the list has entries.
RequestsBounded ==
    /\ Len(PingsSent) <= 1
    /\ (sent # <<>> => IsPing(sent[1]))
    /\ (Returned => Len(PingsSent) = 1)
    /\ Len(HashRequestsSent) <= 1
    /\ Len(GetBlocksSent) <= Len(hashes)
    /\ \A i \in 1..Len(GetBlocksSent) : GetBlocksSent[i].a = hashes[i]
    /\ Len(sent) <= 2 + Len(hashes)

\* No hash is asked for twice.
NoHashRequestedTwice ==
    \A i, j \in 1..Len(GetBlocksSent) :
        i # j => GetBlocksSent[i].a # GetBlocksSent[j].a

\* C14 as stated: exactly one Ping, at most one GetBlockHashes, at most one
\* GetBlock per hash of the GetBlockHashesResponse, and no hash is ever
\* requested again.
C14_Original == RequestsBounded /\ NoHashRequestedTwice

\* C14 (amended): sync_blockchain sends exactly one Ping, at most one
\* GetBlockHashes and one GetBlock per entry of the list, in the order of the
\* list (a hash listed twice is requested twice); once launched it returns,
\* unless the process ends first.
C14_BoundedAndReturns ==
    /\ []RequestsBounded
    /\ Launched ~> (Returned \/ ~Alive)

\* sync_blockchain has returned after two GetBlock requests for one and the
\* same hash.
C14_Witness ==
    /\ Returned /\ Len(GetBlocksSent) = 2
    /\ GetBlocksSent[1].a = GetBlocksSent[2].a

\* ------------------------------------------------------------------ C15
\* sync_blockchain has returned because a request failed, was answered by a
\* command of another kind, or a GetBlock was answered by the absent sentinel.
ReplyFailed == Returned /\ error \in {"request", "kind", "absent"}

\* The step on which the answer to an outstanding request ends sync_blockchain.
FailsOnReply == ipc \in {"pong", "hashes", "block"} /\ ipc' = "returned"

\* add_block was called for every GetBlock but the last one sent, the one whose
\* answer was the failure, and each of those calls succeeded.
LastStepNotAdded ==
    /\ Len(addCalls) = IF IsGetBlock(sent[Len(sent)]) THEN Len(GetBlocksSent) - 1
                                                       ELSE 0
    /\ \A i \in 1..Len(addCalls) : addCalls[i].ok

\* C15: if a GetBlock is answered by the absent sentinel, an IBD request by a
\* response of the wrong kind, or a request fails, sync_blockchain returns an
\* error without calling add_block for that step: the step writes nothing, and
\* the blockchain is as the last successful add_block left it (the chain IBD
\* started from extended by the blocks it added, when IBD is the only writer).
C15_FailedReplyAddsNothing ==
    /\ [][FailsOnReply => /\ result' = "Err"
                          /\ error' \in {"request", "kind", "absent"}
                          /\ chain' = chain /\ addCalls' = addCalls
                          /\ ~Holds(lock', "ibd")]_vars
    /\ [](ReplyFailed => /\ result = "Err"
                         /\ inflight = {}
                         /\ LastStepNotAdded
                         /\ (~raced => chain = chain0 \o CalledBlocks(Len(addCalls))))

\* The first fetched block was added, the second GetBlock was answered by the
\* absent sentinel.
C15_Witness ==
    /\ ReplyFailed /\ error = "absent"
    /\ Len(addCalls) = 1 /\ Len(GetBlocksSent) = 2

\* ------------------------------------------------------------------ C16
\* Every add_block call of IBD so far was made on a block that extended the tip
\* at the moment of the call, and IBD has not failed on a rejected block.
EveryCallExtendsTip ==
    /\ \A i \in 1..Len(addCalls) : addCalls[i].ok
    /\ error # "add_block"

\* C16 as stated: whatever the coordinator accepts from AnnounceBlock in the
\* meantime, every block IBD fetches from an honest peer (one whose chain
\* extends the chain IBD started from) extends the tip when IBD passes it to
\* add_block, and IBD does not fail.
C16_Original ==
    (honest /\ IsPrefix(chain0, peerChain)) => EveryCallExtendsTip

\* C16 (amended): the same, when no block of another writer was accepted after
\* IBD read the local height.
C16_ExtendsTipUnlessRaced ==
    HonestRun => EveryCallExtendsTip

\* An announced block was accepted before IBD read the local height, and IBD
\* then added the next block of the honest peer on top of it.
C16_Witness ==
    /\ HonestRun /\ otherWrites >= 1 /\ chain0 # <<>>
    /\ Len(addCalls) >= 1 /\ addCalls[1].ok

\* ------------------------------------------------------------------ C17
\* One iteration of the TUI loop has read its snapshot and drawn it.
Draws == tpc = "snap" /\ shown' # shown /\ shown'.drawn

\* The hash shown belongs to the height shown, in chain c: the hash of c's block
\* at height - 1, nothing ("<no block>") at height 0.
ConsistentWith(c, s) ==
    /\ s.height <= get_height(c)
    /\ s.last_block = IF s.height = 0 THEN NoHash ELSE SomeHash(c[s.height].hash)

\* C17: every TUI snapshot is consistent and heights are monotonic: the height
\* and the last-block hash drawn are those of the chain as it is at the moment
\* of the snapshot (the hash of the block at height - 1, "<no block>" at height
\* 0), what is on the screen stays a height and hash of the node's chain while
\* IBD and others add blocks, and a snapshot never shows a smaller height than
\* the one before it.
C17_SnapshotConsistent ==
    /\ [][Draws => /\ chain' = chain
                   /\ shown'.height = get_height(chain)
                   /\ ConsistentWith(chain, shown')
                   /\ (shown.drawn => shown'.height >= shown.height)]_vars
    /\ [](shown.drawn => ConsistentWith(chain, shown))

\* The TUI has drawn the first block IBD added while IBD is still fetching.
C17_Witness ==
    /\ shown.drawn /\ shown.height = Len(chain0) + 1
    /\ shown.last_block.some
    /\ ipc \in {"loop", "block", "wrlock"} /\ Len(addCalls) >= 1

\* ------------------------------------------------------------------ C19
\* run_tui has returned to main, Ok or Err.
RunTuiReturned == exitCause \in {"quit", "tui_err"}

\* C19: on every path by which run_tui returns after it has enabled raw mode
\* and entered the alternate screen, Ok after 'q' or Err from drawing, polling
\* or reading, raw mode is disabled and the alternate screen left.
C19_TerminalRestored ==
    (RunTuiReturned /\ term.entered) => (~term.raw_mode /\ ~term.alternate_screen)

\* ------------------------------------------------------------------ C18
\* Node::submit_block has accepted the genesis block built at startup.
GenesisSubmitted ==
    genesis # NoBlock /\ \E i \in 1..Len(chain) : chain[i] = genesis

\* The task has read the local height.
HeightRead == ipc \notin {"idle", "sleep", "rdlock", "height"}

\* C18: with --create-genesis (and --peers) the genesis block is built, mined
\* and submitted before the IBD task is spawned: while main is at the genesis
\* steps is_syncing is true and no task exists, the step that submits the block
\* is taken with is_syncing true, a launched task implies a submitted genesis
\* block, the chain IBD reads its local height from contains it, and is_syncing
\* is not cleared before the submission.
C18_GenesisBeforeIbd ==
    /\ []((create_genesis /\ mpc \in {"genesis", "build", "submit"})
            => (is_syncing /\ ~Launched))
    /\ [][(mpc = "submit" /\ mpc' # mpc) => (is_syncing /\ is_syncing' /\ ~Launched')]_vars
    /\ []((create_genesis /\ Launched) => GenesisSubmitted)
    /\ []((create_genesis /\ HeightRead)
            => \E i \in 1..Len(chain0) : chain0[i] = genesis)
    /\ []((create_genesis /\ mpc # "resolve" /\ ~is_syncing) => GenesisSubmitted)

\* Started with both flags, the task has read a local height that counts the
\* genesis block, is_syncing still set.
C18_Witness ==
    /\ create_genesis /\ peers > 0 /\ ipc = "ping" /\ is_syncing
    /\ local_height = Len(chain0) /\ chain0[Len(chain0)] = genesis

====
